---- MODULE Spec2Model ----
(***************************************************************************)
(* The gallery resequencing scripts of game-library-service:               *)
(*   scripts/conv_galleries.py  position -> prev_id/next_id (PositionLinker)*)
(*   scripts/id_to_seq.py       prev_id/next_id -> sort_key (ChainWalker    *)
(*                              and KeySpacer)                              *)
(* over the rows of the table galleries_history.  conv_galleries.py runs    *)
(* the same body over the table galleries as well; the two tables share no  *)
(* row, and the model follows galleries_history, the one id_to_seq.py reads.*)
(*                                                                         *)
(* Each script runs inside one sqlite3 transaction ("with conn as cur"):    *)
(* `rows` is the table as the running script sees it, `committed` the table *)
(* as the last commit left it, which a rollback restores.                   *)
(***************************************************************************)
EXTENDS Integers, Sequences, FiniteSets, TLC

\* ---------------------------------------------------------------- bounds
NumNodes == 3          \* rows of the table
MaxLinkRuns == 2       \* runs of conv_galleries.py between two foreign writes
MaxKeyLen == 510       \* longest chain handed to the key computation (SpecKeys)

Ids == 1..NumNodes
Projects == {1, 2}
\* The walk of a cyclic chain never ends; the model follows it this far.
MaxWalk == NumNodes + 2

\* Python's None / SQL NULL in an id column.  Ids start at 1, so NULL sorts
\* before every id, as ORDER BY ... NULLS FIRST asks.
None == 0
\* SQL NULL in the sort_key column.
NoKey == <<>>

VARIABLES
    rows,        \* id -> row, as seen inside the running transaction
    committed,   \* id -> row, as last committed
    pc,          \* "idle" | "link" | "pick" | "walk" | "keys" | "write" | "failed"
    todo,        \* project ids the running script has still to process
    cur,         \* project id being processed by id_to_seq.py (None: none)
    glist,       \* id_to_seq.py: the ids appended so far (glist)
    sk,          \* id_to_seq.py: the (key, id) pairs computed (sk)
    lastUpdates, \* conv_galleries.py: the UPDATEs issued for the latest group
    lcur,        \* conv_galleries.py: the group of lastUpdates (None: none)
    seqOut,      \* project -> sequence the walk of this run produced
    doneInRun,   \* projects whose keys this run of id_to_seq.py has written
    linkRuns,    \* completed runs of conv_galleries.py since the last foreign write
    firstLinks,  \* the links as the first of those runs left them
    edited       \* whether a foreign write has happened

vars == <<rows, committed, pc, todo, cur, glist, sk, lastUpdates, lcur,
          seqOut, doneInRun, linkRuns, firstLinks, edited>>

\* ------------------------------------------------------------- the table
Group(tbl, p) == {n \in Ids : tbl[n].project_id = p}

\* SELECT DISTINCT project_id
ProjectIds(tbl) == {tbl[n].project_id : n \in Ids}

Links(tbl) == [n \in Ids |-> <<tbl[n].prev_id, tbl[n].next_id>>]

RECURSIVE SortedBy(_, _)
\* The ids of S in ascending order of key[id].  Rows of equal position come
\* back in the storage's row order, which no UPDATE of the scripts changes;
\* the model's positions are already distinct within a group.
SortedBy(S, key) ==
    IF S = {} THEN <<>>
    ELSE LET m == CHOOSE x \in S : \A y \in S : key[x] <= key[y]
         IN  <<m>> \o SortedBy(S \ {m}, key)

\* SELECT gallery_id, position ... WHERE project_id = p ORDER BY position
ByPosition(tbl, p) == SortedBy(Group(tbl, p), [n \in Ids |-> tbl[n].position])

\* ------------------------------------------- conv_galleries.py (PositionLinker)
\* cur.execute("UPDATE ... SET <col> = ? WHERE gallery_id = ?", (val, id))
ApplyUpdate(tbl, u) ==
    [n \in Ids |-> IF n = u.id THEN [tbl[n] EXCEPT ![u.col] = u.val] ELSE tbl[n]]

RECURSIVE ApplyUpdates(_, _)
ApplyUpdates(tbl, us) ==
    IF us = <<>> THEN tbl ELSE ApplyUpdates(ApplyUpdate(tbl, Head(us)), Tail(us))

\* gi[i] with Python's list indexing (0-based, a negative index counts from the end)
PyAt(gi, i) == gi[(i % Len(gi)) + 1]

\* The loop written with i = 0 as its start: its first UPDATE reads gi[-1].
NextUpdatesFromZero(gi) ==
    [k \in 1..Len(gi) |-> [col |-> "next_id", val |-> PyAt(gi, k - 1), id |-> PyAt(gi, k - 2)]]

\* i = 1; while i < len(gi): UPDATE next_id = gi[i][0] WHERE gallery_id = gi[i-1][0]
NextUpdates(gi) ==
    [k \in 1..(Len(gi) - 1) |-> [col |-> "next_id", val |-> PyAt(gi, k), id |-> PyAt(gi, k - 1)]]

\* i = len(gi) - 1; while i > 0: UPDATE prev_id = gi[i-1][0] WHERE gallery_id = gi[i][0]
PrevUpdates(gi) ==
    [k \in 1..(Len(gi) - 1) |->
        LET i == Len(gi) - k
        IN  [col |-> "prev_id", val |-> PyAt(gi, i - 1), id |-> PyAt(gi, i)]]

\* The UPDATEs of one group, in the order the script issues them.
LinkUpdates(tbl, p) ==
    LET gi == ByPosition(tbl, p) IN NextUpdates(gi) \o PrevUpdates(gi)

\* ------------------------------------------------ id_to_seq.py (ChainWalker)
\* The rows that may come first under ORDER BY prev_id NULLS FIRST: those of
\* least prev_id, NULL least.  Among rows of equal prev_id the order is the
\* storage's.
FirstRows(tbl, p) ==
    {n \in Group(tbl, p) : \A y \in Group(tbl, p) : tbl[n].prev_id <= tbl[y].prev_id}

\* glist[-1][1]
LastNext(tbl, gl) == tbl[gl[Len(gl)]].next_id

\* ------------------------------------------------- id_to_seq.py (KeySpacer)
\* Python's round(num / den): to the nearest integer, a tie to the even one.
RoundHalfEven(num, den) ==
    LET q == num \div den
        r == num % den
    IN  IF 2 * r > den THEN q + 1
        ELSE IF 2 * r = den THEN q + (q % 2)
        ELSE q

\* bytes([v]): the one-byte string of value v
Bytes1(v) == <<v>>

\* round((i + 1) / slots * 255), i counted from 0
KeyValue(i, slots) == RoundHalfEven((i + 1) * 255, slots)

\* slots = len(glist) + 1
\* sk = [(bytes([round((i + 1) / slots * 255)]), g[0]) for i, g in enumerate(glist)]
SortKeys(gl) ==
    LET slots == Len(gl) + 1
    IN  [k \in 1..Len(gl) |-> <<Bytes1(KeyValue(k - 1, slots)), gl[k]>>]

\* for s in sk: UPDATE galleries_history SET sort_key = ? WHERE gallery_id = ?
KeyUpdates(s) == [k \in 1..Len(s) |-> [col |-> "sort_key", val |-> s[k][1], id |-> s[k][2]]]

\* The comparison of two byte strings: lexicographic, a proper prefix first.
RECURSIVE BytesLess(_, _)
BytesLess(a, b) ==
    IF b = <<>> THEN FALSE
    ELSE IF a = <<>> THEN TRUE
    ELSE IF Head(a) # Head(b) THEN Head(a) < Head(b)
    ELSE BytesLess(Tail(a), Tail(b))

\* ------------------------------------------------------------ transactions
\* "with conn": an exception leaving the block rolls the transaction back.
\* Committing here instead would keep the writes made before the exception.
RollbackKeepsWrites(tbl, last) == tbl

Rollback(tbl, last) == last

\* ------------------------------------------------------------------- Init
NoOutput == [p \in Projects |-> <<>>]
NoLinks == [n \in Ids |-> <<None, None>>]

\* Within a group the positions are the ranks 1..size in some order.
DensePositions(tbl) ==
    \A p \in Projects :
        {tbl[n].position : n \in Group(tbl, p)} = 1..Cardinality(Group(tbl, p))

\* The table right after the columns prev_id, next_id and sort_key were added.
FreshTables ==
    {t \in [Ids -> [project_id : Projects, position : Ids,
                    prev_id : {None}, next_id : {None}, sort_key : {NoKey}]] :
        /\ DensePositions(t)
        /\ \A a, b \in Ids :
              (a # b /\ t[a].project_id = t[b].project_id) => t[a].position # t[b].position}

Init ==
    /\ rows \in FreshTables
    /\ committed = rows
    /\ pc = "idle"
    /\ todo = {}
    /\ cur = None
    /\ glist = <<>>
    /\ sk = <<>>
    /\ lastUpdates = <<>>
    /\ lcur = None
    /\ seqOut = NoOutput
    /\ doneInRun = {}
    /\ linkRuns = 0
    /\ firstLinks = NoLinks
    /\ edited = FALSE

\* ----------------------------------------------------------------- actions
\* Rows written by something other than the two scripts (links that exist
\* before a run: imported or hand-edited data).
ExternalWrite ==
    /\ pc = "idle"
    /\ ~edited
    /\ \E n \in Ids, c \in {"prev_id", "next_id"}, v \in Ids \cup {None} :
          /\ rows[n][c] # v
          /\ rows' = ApplyUpdate(rows, [col |-> c, val |-> v, id |-> n])
    /\ committed' = rows'
    /\ edited' = TRUE
    /\ linkRuns' = 0
    /\ firstLinks' = NoLinks
    /\ seqOut' = NoOutput
    /\ doneInRun' = {}
    /\ UNCHANGED <<pc, todo, cur, glist, sk, lastUpdates, lcur>>

\* conv_galleries.py: SELECT DISTINCT project_id
LinkerStart ==
    /\ pc = "idle"
    /\ linkRuns < MaxLinkRuns
    /\ pc' = "link"
    /\ todo' = ProjectIds(rows)
    /\ seqOut' = NoOutput
    /\ doneInRun' = {}
    /\ UNCHANGED <<rows, committed, cur, glist, sk, lastUpdates, lcur, linkRuns,
                   firstLinks, edited>>

\* conv_galleries.py: the body of "for r in rows" for one project
LinkGroup ==
    /\ pc = "link"
    /\ \E p \in todo :
          /\ lastUpdates' = LinkUpdates(rows, p)
          /\ rows' = ApplyUpdates(rows, lastUpdates')
          /\ lcur' = p
          /\ todo' = todo \ {p}
    /\ UNCHANGED <<committed, pc, cur, glist, sk, seqOut, doneInRun, linkRuns,
                   firstLinks, edited>>

\* conv_galleries.py: the end of "with conn as cur": commit
LinkerCommit ==
    /\ pc = "link"
    /\ todo = {}
    /\ committed' = rows
    /\ pc' = "idle"
    /\ lastUpdates' = <<>>
    /\ lcur' = None
    /\ linkRuns' = linkRuns + 1
    /\ firstLinks' = IF linkRuns = 0 THEN Links(rows) ELSE firstLinks
    /\ UNCHANGED <<rows, todo, cur, glist, sk, seqOut, doneInRun, edited>>

\* id_to_seq.py: SELECT DISTINCT project_id ... ORDER BY project_id
WalkerStart ==
    /\ pc = "idle"
    /\ pc' = "pick"
    /\ todo' = ProjectIds(rows)
    /\ seqOut' = NoOutput
    /\ doneInRun' = {}
    /\ UNCHANGED <<rows, committed, cur, glist, sk, lastUpdates, lcur, linkRuns,
                   firstLinks, edited>>

\* id_to_seq.py: glist.append(x[0]) for the next project in project_id order
PickHead ==
    /\ pc = "pick"
    /\ todo # {}
    /\ LET p == CHOOSE q \in todo : \A o \in todo : q <= o
       IN  /\ cur' = p
           /\ \E h \in FirstRows(rows, p) : glist' = <<h>>
    /\ pc' = "walk"
    /\ sk' = <<>>
    /\ UNCHANGED <<rows, committed, todo, lastUpdates, lcur, seqOut, doneInRun,
                   linkRuns, firstLinks, edited>>

\* id_to_seq.py: one turn of "while glist[-1][1] != None", the key found in m
WalkStep ==
    /\ pc = "walk"
    /\ LastNext(rows, glist) # None
    /\ LastNext(rows, glist) \in Group(rows, cur)
    /\ Len(glist) < MaxWalk
    /\ glist' = Append(glist, LastNext(rows, glist))
    /\ UNCHANGED <<rows, committed, pc, todo, cur, sk, lastUpdates, lcur, seqOut,
                   doneInRun, linkRuns, firstLinks, edited>>

\* id_to_seq.py: m[glist[-1][1]] raises KeyError; the exception leaves
\* "with conn as cur" (rollback) and ends the script
WalkKeyError ==
    /\ pc = "walk"
    /\ LastNext(rows, glist) # None
    /\ LastNext(rows, glist) \notin Group(rows, cur)
    /\ rows' = Rollback(rows, committed)
    /\ pc' = "failed"
    /\ UNCHANGED <<committed, todo, cur, glist, sk, lastUpdates, lcur, seqOut,
                   doneInRun, linkRuns, firstLinks, edited>>

\* id_to_seq.py: the walk has met next_id = None; slots and sk are computed
ComputeKeys ==
    /\ pc = "walk"
    /\ LastNext(rows, glist) = None
    /\ sk' = SortKeys(glist)
    /\ pc' = "write"
    /\ UNCHANGED <<rows, committed, todo, cur, glist, lastUpdates, lcur, seqOut,
                   doneInRun, linkRuns, firstLinks, edited>>

\* id_to_seq.py: "for s in sk: UPDATE ... SET sort_key"
WriteKeys ==
    /\ pc = "write"
    /\ rows' = ApplyUpdates(rows, KeyUpdates(sk))
    /\ seqOut' = [seqOut EXCEPT ![cur] = glist]
    /\ doneInRun' = doneInRun \cup {cur}
    /\ todo' = todo \ {cur}
    /\ pc' = "pick"
    /\ UNCHANGED <<committed, cur, glist, sk, lastUpdates, lcur, linkRuns,
                   firstLinks, edited>>

\* id_to_seq.py: the end of "with conn as cur": commit
WalkerCommit ==
    /\ pc = "pick"
    /\ todo = {}
    /\ committed' = rows
    /\ pc' = "idle"
    /\ cur' = None
    /\ glist' = <<>>
    /\ sk' = <<>>
    /\ UNCHANGED <<rows, todo, lastUpdates, lcur, seqOut, doneInRun, linkRuns,
                   firstLinks, edited>>

\* id_to_seq.py: the process has ended with the traceback of the exception
Exit ==
    /\ pc = "failed"
    /\ pc' = "idle"
    /\ todo' = {}
    /\ cur' = None
    /\ glist' = <<>>
    /\ sk' = <<>>
    /\ seqOut' = NoOutput
    /\ doneInRun' = {}
    /\ UNCHANGED <<rows, committed, lastUpdates, lcur, linkRuns, firstLinks, edited>>

Next ==
    \/ ExternalWrite
    \/ LinkerStart
    \/ LinkGroup
    \/ LinkerCommit
    \/ WalkerStart
    \/ PickHead
    \/ WalkStep
    \/ WalkKeyError
    \/ ComputeKeys
    \/ WriteKeys
    \/ WalkerCommit
    \/ Exit

Spec == Init /\ [][Next]_vars

\* ------------------------------------- the key computation on long chains
\* A walk result of any length up to MaxKeyLen, handed to lines 26-28.
InitKeys ==
    /\ rows \in {t \in FreshTables : \A n \in Ids : t[n].project_id = 1 /\ t[n].position = n}
    /\ committed = rows
    /\ pc = "walked"
    /\ todo = {}
    /\ cur = 1
    /\ \E L \in 1..MaxKeyLen : glist = [k \in 1..L |-> k]
    /\ sk = <<>>
    /\ lastUpdates = <<>>
    /\ lcur = None
    /\ seqOut = NoOutput
    /\ doneInRun = {}
    /\ linkRuns = 0
    /\ firstLinks = NoLinks
    /\ edited = FALSE

KeysOfWalk ==
    /\ pc = "walked"
    /\ sk' = SortKeys(glist)
    /\ pc' = "write"
    /\ UNCHANGED <<rows, committed, todo, cur, glist, lastUpdates, lcur, seqOut,
                   doneInRun, linkRuns, firstLinks, edited>>

NextKeys == KeysOfWalk

SpecKeys == InitKeys /\ [][NextKeys]_vars

\* ------------------------------------------------------------------ claims
HeadCount(tbl, p) == Cardinality({n \in Group(tbl, p) : tbl[n].prev_id = None})

\* A link of a row of group p that names no row of group p.
Dangling(tbl, p) ==
    \E n \in Group(tbl, p) :
        \/ tbl[n].next_id # None /\ tbl[n].next_id \notin Group(tbl, p)
        \/ tbl[n].prev_id # None /\ tbl[n].prev_id \notin Group(tbl, p)

\* The run of id_to_seq.py has committed, and it wrote the keys of group p.
Keyed(p) == pc = "idle" /\ p \in doneInRun

\* The rows of group p have kept the links conv_galleries.py gave them.
Linked == linkRuns >= 1

Range(s) == {s[k] : k \in 1..Len(s)}

\* C1: once conv_galleries.py has linked a group of two or more nodes,
\* whatever the links held before, id_to_seq.py walks the group to its end
\* without error and the walk yields the ids of the group in ascending
\* position order.
C1_RoundTrip ==
    Linked =>
        /\ pc \in {"walk", "failed"} =>
              \/ Cardinality(Group(rows, cur)) < 2
              \/ pc = "walk" /\ Len(glist) <= Cardinality(Group(rows, cur))
        /\ \A p \in Projects :
              (Keyed(p) /\ Cardinality(Group(committed, p)) >= 2)
                  => seqOut[p] = ByPosition(committed, p)

\* C2: the keys computed for a walk of any length are strictly increasing
\* along the walk, compared as byte strings (no two nodes get the same key).
C2_StrictlyIncreasing ==
    pc = "write" =>
        \A k \in 1..(Len(sk) - 1) : BytesLess(sk[k][1], sk[k + 1][1])

\* C3: a group whose keys were written was walked in full: the sequence holds
\* every node of the group, each exactly once.  (Stated for the groups with
\* exactly one head and no dangling link, where only an orphan subchain can
\* break it.)
C3_AllNodesWalked ==
    \A p \in Projects :
        (Keyed(p) /\ HeadCount(committed, p) = 1 /\ ~Dangling(committed, p)) =>
            /\ Len(seqOut[p]) = Cardinality(Group(committed, p))
            /\ Range(seqOut[p]) = Group(committed, p)

\* C4: keys are written only for a group with exactly one node of
\* prev_id = None; with none or several the group fails and gets no key.
C4_UniqueHead ==
    \A p \in Projects : Keyed(p) => HeadCount(committed, p) = 1

C6_WalkBounded ==
    pc = "walk" => Len(glist) <= Cardinality(Group(rows, cur))

\* C7: after conv_galleries.py, whatever the links held before, every group
\* of two or more nodes is a fully linked chain in position order, open at
\* both ends, with next_id and prev_id mirroring each other.
C7_FullyLinked ==
    Linked =>
        \A p \in ProjectIds(rows) :
            Cardinality(Group(rows, p)) >= 2 =>
                LET gi == ByPosition(rows, p)
                IN  /\ rows[gi[1]].prev_id = None
                    /\ rows[gi[Len(gi)]].next_id = None
                    /\ \A k \in 1..(Len(gi) - 1) :
                          /\ rows[gi[k]].next_id = gi[k + 1]
                          /\ rows[gi[k + 1]].prev_id = gi[k]
                    /\ \A n, x \in Group(rows, p) :
                          (rows[n].next_id = x) <=> (rows[x].prev_id = n)

\* C8: a group with a next_id or prev_id that names no node of the group
\* fails, wherever the link sits: its keys are never written.  (Stated for
\* the groups with exactly one head.)
C8_DanglingFails ==
    \A p \in Projects :
        (Keyed(p) /\ HeadCount(committed, p) = 1) => ~Dangling(committed, p)

\* C9: every key computed, for a walk of any length, is a byte of 1..254.
C9_UsableRange ==
    pc = "write" =>
        \A k \in 1..Len(sk) : sk[k][1][1] >= 1 /\ sk[k][1][1] <= 254

\* C10: a run of conv_galleries.py after an earlier run, the positions being
\* the same, leaves every prev_id and next_id as the earlier run left them,
\* whatever they held before the first; and for a group of one node it
\* issues no UPDATE at all.
C10_Idempotent ==
    /\ Linked => Links(rows) = firstLinks
    /\ (pc = "link" /\ lcur # None /\ Cardinality(Group(rows, lcur)) <= 1)
          => lastUpdates = <<>>

\* C10 witness: a second run has processed a group of one node and the table
\* holds a group of two or more, on links that were not all NULL before the
\* first run.
C10_Witness ==
    /\ linkRuns >= 1
    /\ edited
    /\ pc = "link"
    /\ lcur # None
    /\ Cardinality(Group(rows, lcur)) = 1
    /\ \E p \in Projects : Cardinality(Group(rows, p)) >= 2 /\ p \notin todo
    /\ \E n \in Ids : rows[n].position = 1 /\ rows[n].prev_id # None

====
